---- MODULE Spec2Model ----
(***************************************************************************)
(* Model of the two CSV publishers of kafka-eh:                            *)
(*   produce_to_eventhub.py  (variant "kafka": confluent-kafka Producer)   *)
(*   produce_send_rows.py    (variant "batch": EventHubProducerClient)     *)
(* One run of one script is one behaviour; Init draws the script, its      *)
(* command line, its environment and the CSV file.                         *)
(***************************************************************************)
EXTENDS Integers, Sequences, FiniteSets

\* ---------------------------------------------------------------- bounds
MaxRows == 2      \* data rows in the CSV file
MaxBatch == 2     \* largest --batch value drawn
MaxCycles == 2    \* restarts of the row generator followed in loop mode
QueueMax == 1     \* queue.buffering.max.messages, scaled down
BaseMax == 1      \* size limit of create_batch(), in MB

\* ------------------------------------------------------- program constants
ExpandedMax == 4  \* 1024*1024*4 bytes, in MB

\* ---------------------------------------------------------- Python values
None == [t |-> "None", v |-> ""]
Str(s) == [t |-> "str", v |-> s]
Bytes(s) == [t |-> "bytes", v |-> s]

\* str(x)
PyStr(x) == IF x.t = "None" THEN Str("None") ELSE Str(x.v)

\* x.encode("utf-8")
Encode(x) == Bytes(x.v)

\* truth value of a str or None
Truthy(x) == x.t # "None" /\ x.v # ""

\* ------------------------------------------------------------- the inputs
fieldnames == <<"a", "b">>

FieldSet == {fieldnames[i] : i \in 1..Len(fieldnames)}

FieldIndex(f) == CHOOSE i \in 1..Len(fieldnames) : fieldnames[i] = f

\* csv.DictReader: a line with fewer cells than the header gets None for the rest
DictRow(cells) ==
  [f \in FieldSet |-> IF FieldIndex(f) <= Len(cells) THEN Str(cells[FieldIndex(f)]) ELSE None]

\* row.get(k, default)
RowGet(row, k, default) == IF k \in DOMAIN row THEN row[k] ELSE default

KafkaLines ==
  { [cells |-> <<"1", "x">>, size |-> BaseMax],
    [cells |-> <<"2", "">>,  size |-> BaseMax],
    [cells |-> <<"2">>,      size |-> BaseMax] }

BatchLines ==
  { [cells |-> <<"1", "x">>, size |-> s] : s \in {BaseMax, ExpandedMax, ExpandedMax + 1} }

Csvs(L) == UNION { [1..n -> L] : n \in 0..MaxRows }

BatchSizes == 0..MaxBatch

KeyArgs == {None, Str("a"), Str("b"), Str("zz")}

VARIABLES
  variant,        \* which script runs
  csv,            \* the data lines of the file, in file order
  credential,     \* EVENTHUB_CONN / --eh_conn is set
  pc,             \* position of the main thread
  exc,            \* the exception being propagated, "none" if none
  exitStatus,     \* "running", "0" or "nonzero"
  created,        \* the broker client has been created
  closed,         \* the broker client has been closed
  \* produce_to_eventhub.py
  batch_size, key_field_arg, key_field, pos, total, batch_counter, stats,
  inflight, msgs, attempts, recovery, sinceFlush, flushLog,
  \* produce_send_rows.py
  loop, gen, cycles, ok, sendLog

common == <<variant, csv, credential, pc, exc, exitStatus, created, closed>>
kvars == <<batch_size, key_field_arg, key_field, pos, total, batch_counter, stats,
           inflight, msgs, attempts, recovery, sinceFlush, flushLog>>
bvars == <<loop, gen, cycles, ok, sendLog>>
vars == <<common, kvars, bvars>>
common_but_pc == <<variant, csv, credential, exc, exitStatus, created, closed>>

Init ==
  /\ variant \in {"kafka", "batch"}
  /\ credential \in BOOLEAN
  /\ csv \in (IF variant = "kafka" THEN Csvs(KafkaLines) ELSE Csvs(BatchLines))
  /\ batch_size \in (IF variant = "kafka" THEN BatchSizes ELSE {MaxBatch})
  /\ key_field_arg \in (IF variant = "kafka" THEN KeyArgs ELSE {None})
  /\ loop \in (IF variant = "batch" THEN BOOLEAN ELSE {FALSE})
  /\ key_field = key_field_arg
  /\ pc = "start"
  /\ exc = "none"
  /\ exitStatus = "running"
  /\ created = FALSE
  /\ closed = FALSE
  /\ pos = 0
  /\ total = 0
  /\ batch_counter = 0
  /\ stats = [delivered |-> 0, failed |-> 0]
  /\ inflight = 0
  /\ msgs = <<>>
  /\ attempts = 0
  /\ recovery = <<>>
  /\ sinceFlush = 0
  /\ flushLog = <<>>
  /\ gen = 0
  /\ cycles = 0
  /\ ok = TRUE
  /\ sendLog = <<>>

\* ===================================================== produce_to_eventhub.py

\* delivery_report, called once per completed message: d successes, f errors
delivery_report(s, d, f) == [delivered |-> s.delivered + d, failed |-> s.failed + f]

\* producer.poll(t) / producer.flush(t): serves the completions that are ready;
\* a flush that times out leaves the rest in flight
ServeCallbacks ==
  \E d \in 0..inflight : \E f \in 0..(inflight - d) :
    /\ stats' = delivery_report(stats, d, f)
    /\ inflight' = inflight - d - f

\* producer.flush(t), recorded with its timeout and the messages accepted so far
Flush(t) ==
  /\ ServeCallbacks
  /\ flushLog' = Append(flushLog, [timeout |-> t, after |-> Len(msgs)])

\* the local queue of the client is full: produce raises BufferError
BufferFull == inflight >= QueueMax

\* key = str(row.get(key_field, "")) if key_field; key.encode("utf-8") if key else None
MessageKey(row, kf) ==
  LET key == IF Truthy(kf) THEN PyStr(RowGet(row, kf.v, Str(""))) ELSE None
  IN IF Truthy(key) THEN Encode(key) ELSE None

\* a threshold test that is off by one
FlushDue_strict(counter, size) == counter > size

\* if batch_counter >= batch_size
FlushDue(counter, size) == counter >= size

\* the message producer.produce accepts for the current row
Accept ==
  /\ msgs' = Append(msgs, [row |-> pos, key |-> MessageKey(DictRow(csv[pos].cells), key_field)])
  /\ inflight' = inflight + 1
  /\ sinceFlush' = sinceFlush + 1

\* main: make_producer(args.bootstrap), outside the try
eh_make_producer ==
  /\ variant = "kafka" /\ pc = "start"
  /\ IF credential
       THEN /\ created' = TRUE
            /\ pc' = "open"
            /\ UNCHANGED <<exc, exitStatus>>
       ELSE /\ exc' = "RuntimeError"
            /\ exitStatus' = "nonzero"
            /\ pc' = "done"
            /\ UNCHANGED created
  /\ UNCHANGED <<variant, csv, credential, closed, kvars, bvars>>

\* stream_csv: open the file, read the header, drop an unknown key field
eh_open ==
  /\ variant = "kafka" /\ pc = "open"
  /\ key_field' = IF Truthy(key_field) /\ key_field.v \notin FieldSet THEN None ELSE key_field
  /\ batch_counter' = 0
  /\ pc' = "row"
  /\ UNCHANGED <<common_but_pc, batch_size, key_field_arg, pos, total, stats, inflight,
                 msgs, attempts, recovery, sinceFlush, flushLog, bvars>>

\* for row in reader: total += 1, or the end of the loop
eh_next_row ==
  /\ variant = "kafka" /\ pc = "row"
  /\ IF pos < Len(csv)
       THEN /\ pos' = pos + 1
            /\ total' = total + 1
            /\ attempts' = 0
            /\ recovery' = <<>>
            /\ pc' = "produce"
       ELSE /\ pc' = "finalflush"
            /\ UNCHANGED <<pos, total, attempts, recovery>>
  /\ UNCHANGED <<common_but_pc, batch_size, key_field_arg, key_field, batch_counter, stats,
                 inflight, msgs, sinceFlush, flushLog, bvars>>

\* try: producer.produce(...)  except BufferError
eh_produce ==
  /\ variant = "kafka" /\ pc = "produce"
  /\ attempts' = attempts + 1
  /\ \E fatal \in BOOLEAN :
       IF fatal
         THEN /\ exc' = "KafkaException"
              /\ pc' = "except"
              /\ UNCHANGED <<msgs, inflight, sinceFlush>>
         ELSE IF BufferFull
           THEN /\ pc' = "bufpoll"
                /\ UNCHANGED <<exc, msgs, inflight, sinceFlush>>
           ELSE /\ Accept
                /\ pc' = "poll0"
                /\ UNCHANGED exc
  /\ UNCHANGED <<variant, csv, credential, exitStatus, created, closed, batch_size,
                 key_field_arg, key_field, pos, total, batch_counter, stats, recovery,
                 flushLog, bvars>>

\* except BufferError: producer.poll(1)
eh_buffer_poll ==
  /\ variant = "kafka" /\ pc = "bufpoll"
  /\ ServeCallbacks
  /\ recovery' = Append(recovery, "poll")
  /\ pc' = "bufflush"
  /\ UNCHANGED <<common_but_pc, batch_size, key_field_arg, key_field, pos, total,
                 batch_counter, msgs, attempts, sinceFlush, flushLog, bvars>>

\* except BufferError: producer.flush(5)
eh_buffer_flush ==
  /\ variant = "kafka" /\ pc = "bufflush"
  /\ Flush(5)
  /\ recovery' = Append(recovery, "flush")
  /\ pc' = "retry"
  /\ UNCHANGED <<common_but_pc, batch_size, key_field_arg, key_field, pos, total,
                 batch_counter, msgs, attempts, sinceFlush, bvars>>

\* a handler that gives the message up after the recovery
eh_retry_dropped ==
  /\ variant = "kafka" /\ pc = "retry"
  /\ pc' = "poll0"
  /\ UNCHANGED <<common_but_pc, kvars, bvars>>

\* a handler that keeps retrying while the queue is full
eh_retry_again ==
  /\ variant = "kafka" /\ pc = "retry"
  /\ attempts' = attempts + 1
  /\ IF BufferFull
       THEN /\ pc' = "bufpoll"
            /\ UNCHANGED <<msgs, inflight, sinceFlush>>
       ELSE /\ Accept
            /\ pc' = "poll0"
  /\ UNCHANGED <<common_but_pc, batch_size, key_field_arg, key_field, pos, total,
                 batch_counter, stats, recovery, flushLog, bvars>>

\* except BufferError: the second producer.produce(...), not guarded
eh_retry ==
  /\ variant = "kafka" /\ pc = "retry"
  /\ attempts' = attempts + 1
  /\ \E fatal \in BOOLEAN :
       IF fatal
         THEN /\ exc' = "KafkaException"
              /\ pc' = "except"
              /\ UNCHANGED <<msgs, inflight, sinceFlush>>
         ELSE IF BufferFull
           THEN /\ exc' = "BufferError"
                /\ pc' = "except"
                /\ UNCHANGED <<msgs, inflight, sinceFlush>>
           ELSE /\ Accept
                /\ pc' = "poll0"
                /\ UNCHANGED exc
  /\ UNCHANGED <<variant, csv, credential, exitStatus, created, closed, batch_size,
                 key_field_arg, key_field, pos, total, batch_counter, stats, recovery,
                 flushLog, bvars>>

\* producer.poll(0); batch_counter += 1
eh_poll ==
  /\ variant = "kafka" /\ pc = "poll0"
  /\ ServeCallbacks
  /\ batch_counter' = batch_counter + 1
  /\ pc' = "count"
  /\ UNCHANGED <<common_but_pc, batch_size, key_field_arg, key_field, pos, total,
                 msgs, attempts, recovery, sinceFlush, flushLog, bvars>>

\* if batch_counter >= batch_size: producer.flush(30); batch_counter = 0
eh_batch_flush ==
  /\ variant = "kafka" /\ pc = "count"
  /\ IF FlushDue(batch_counter, batch_size)
       THEN /\ Flush(30)
            /\ batch_counter' = 0
            /\ sinceFlush' = 0
       ELSE UNCHANGED <<stats, inflight, flushLog, batch_counter, sinceFlush>>
  /\ pc' = "row"
  /\ UNCHANGED <<common_but_pc, batch_size, key_field_arg, key_field, pos, total,
                 msgs, attempts, recovery, bvars>>

\* producer.flush(60); return total, stats
eh_final_flush ==
  /\ variant = "kafka" /\ pc = "finalflush"
  /\ Flush(60)
  /\ pc' = "returned"
  /\ UNCHANGED <<common_but_pc, batch_size, key_field_arg, key_field, pos, total,
                 batch_counter, msgs, attempts, recovery, sinceFlush, bvars>>

\* main after stream_csv returned: the end of main
eh_main_return ==
  /\ variant = "kafka" /\ pc = "returned"
  /\ exitStatus' = "0"
  /\ pc' = "done"
  /\ UNCHANGED <<variant, csv, credential, exc, created, closed, kvars, bvars>>

\* KeyboardInterrupt raised while stream_csv runs
eh_interrupt ==
  /\ variant = "kafka"
  /\ pc \in {"open", "row", "produce", "bufpoll", "bufflush", "retry", "poll0", "count",
             "finalflush"}
  /\ exc' = "KeyboardInterrupt"
  /\ pc' = "kbint"
  /\ UNCHANGED <<variant, csv, credential, exitStatus, created, closed, kvars, bvars>>

\* except KeyboardInterrupt: producer.flush(10)
eh_main_keyboard_interrupt ==
  /\ variant = "kafka" /\ pc = "kbint"
  /\ Flush(10)
  /\ exitStatus' = "0"
  /\ pc' = "done"
  /\ UNCHANGED <<variant, csv, credential, exc, created, closed, batch_size, key_field_arg,
                 key_field, pos, total, batch_counter, msgs, attempts, recovery,
                 sinceFlush, bvars>>

\* except Exception as e: print; raise
eh_main_exception ==
  /\ variant = "kafka" /\ pc = "except"
  /\ exitStatus' = "nonzero"
  /\ pc' = "done"
  /\ UNCHANGED <<variant, csv, credential, exc, created, closed, kvars, bvars>>

\* ===================================================== produce_send_rows.py

\* what the SDK calls of one send_payload may do: TRUE means the call succeeds
SdkOutcomes == [create1 : BOOLEAN, send1 : BOOLEAN, create2 : BOOLEAN, send2 : BOOLEAN]

Result(ret, retries, sent, sdkErr) ==
  [ret |-> ret, retries |-> retries, sent |-> sent, sdkErr |-> sdkErr]

\* send_payload without the retry with a larger batch
send_payload_no_retry(size, e) ==
  IF ~e.create1 THEN Result("RuntimeError", 0, FALSE, TRUE)
  ELSE IF size <= BaseMax /\ e.send1 THEN Result("True", 0, TRUE, FALSE)
  ELSE Result("False", 0, FALSE, size <= BaseMax)

\* send_payload whose retry lets the ValueError of single.add escape
send_payload_raise(size, e) ==
  IF ~e.create1 THEN Result("RuntimeError", 0, FALSE, TRUE)
  ELSE IF size <= BaseMax
    THEN IF e.send1 THEN Result("True", 0, TRUE, FALSE)
                    ELSE Result("False", 0, FALSE, TRUE)
    ELSE IF ~e.create2 THEN Result("False", 1, FALSE, TRUE)
    ELSE IF size > ExpandedMax THEN Result("RuntimeError", 1, FALSE, FALSE)
    ELSE IF e.send2 THEN Result("True", 1, TRUE, FALSE)
                    ELSE Result("False", 1, FALSE, TRUE)

\* send_payload(producer, payload): batch.add raises ValueError when the event
\* does not fit the batch
send_payload(size, e) ==
  IF ~e.create1 THEN Result("RuntimeError", 0, FALSE, TRUE)
  ELSE IF size <= BaseMax
    THEN IF e.send1 THEN Result("True", 0, TRUE, FALSE)
                    ELSE Result("False", 0, FALSE, TRUE)
    ELSE IF ~e.create2 THEN Result("False", 1, FALSE, TRUE)
    ELSE IF size > ExpandedMax THEN Result("False", 1, FALSE, FALSE)
    ELSE IF e.send2 THEN Result("True", 1, TRUE, FALSE)
                    ELSE Result("False", 1, FALSE, TRUE)

\* main: the connection string, then EventHubProducerClient.from_connection_string
rows_main_start ==
  /\ variant = "batch" /\ pc = "start"
  /\ IF credential
       THEN /\ created' = TRUE
            /\ pc' = "next"
            /\ UNCHANGED <<exc, exitStatus>>
       ELSE /\ exc' = "SystemExit"
            /\ exitStatus' = "nonzero"
            /\ pc' = "done"
            /\ UNCHANGED created
  /\ UNCHANGED <<variant, csv, credential, closed, kvars, bvars>>

\* row = next(gen); on StopIteration restart the generator (--loop) or break
rows_main_next_row ==
  /\ variant = "batch" /\ pc = "next"
  /\ IF gen < Len(csv)
       THEN /\ gen' = gen + 1
            /\ pc' = "send"
            /\ UNCHANGED <<cycles, exc>>
       ELSE IF loop
         THEN /\ cycles < MaxCycles
              /\ cycles' = cycles + 1
              /\ IF Len(csv) > 0
                   THEN /\ gen' = 1
                        /\ pc' = "send"
                        /\ UNCHANGED exc
                   ELSE /\ exc' = "StopIteration"
                        /\ pc' = "finally"
                        /\ UNCHANGED gen
         ELSE /\ pc' = "finally"
              /\ UNCHANGED <<gen, cycles, exc>>
  /\ UNCHANGED <<variant, csv, credential, exitStatus, created, closed, kvars, loop, ok,
                 sendLog>>

\* ok = send_payload(producer, payload), and the line printed for it
rows_main_send ==
  /\ variant = "batch" /\ pc = "send"
  /\ \E e \in SdkOutcomes :
       LET r == send_payload(csv[gen].size, e) IN
         /\ sendLog' = Append(sendLog, [row |-> gen, size |-> csv[gen].size, ret |-> r.ret,
                                        retries |-> r.retries, sent |-> r.sent,
                                        sdkErr |-> r.sdkErr, create1 |-> e.create1])
         /\ IF r.ret = "RuntimeError"
              THEN /\ exc' = "RuntimeError"
                   /\ pc' = "finally"
                   /\ UNCHANGED ok
              ELSE /\ ok' = (r.ret = "True")
                   /\ pc' = "sleep"
                   /\ UNCHANGED exc
  /\ UNCHANGED <<variant, csv, credential, exitStatus, created, closed, kvars, loop, gen,
                 cycles>>

\* time.sleep(args.interval)
rows_main_sleep ==
  /\ variant = "batch" /\ pc = "sleep"
  /\ pc' = "next"
  /\ UNCHANGED <<common_but_pc, kvars, bvars>>

\* KeyboardInterrupt raised inside the try of main: no handler but the finally
rows_interrupt ==
  /\ variant = "batch" /\ pc \in {"next", "send", "sleep"}
  /\ exc' = "KeyboardInterrupt"
  /\ pc' = "finally"
  /\ UNCHANGED <<variant, csv, credential, exitStatus, created, closed, kvars, bvars>>

\* finally: producer.close(); a pending exception then leaves main
rows_main_finally ==
  /\ variant = "batch" /\ pc = "finally"
  /\ closed' = TRUE
  /\ exitStatus' = IF exc = "none" THEN "0" ELSE "nonzero"
  /\ pc' = "done"
  /\ UNCHANGED <<variant, csv, credential, exc, created, kvars, bvars>>

\* ------------------------------------------------------------ specification
Next ==
  \/ eh_make_producer
  \/ eh_open
  \/ eh_next_row
  \/ eh_produce
  \/ eh_buffer_poll
  \/ eh_buffer_flush
  \/ eh_retry
  \/ eh_poll
  \/ eh_batch_flush
  \/ eh_final_flush
  \/ eh_main_return
  \/ eh_interrupt
  \/ eh_main_keyboard_interrupt
  \/ eh_main_exception
  \/ rows_main_start
  \/ rows_main_next_row
  \/ rows_main_send
  \/ rows_main_sleep
  \/ rows_interrupt
  \/ rows_main_finally

Spec == Init /\ [][Next]_vars

\* ------------------------------------------------------------------ claims
InOrder(log) == \A i \in DOMAIN log : log[i].row = i

\* C1: a run without --loop that reaches the end of the file has handled every
\* row once, in file order: stream_csv returns total = N with N messages accepted
\* by producer.produce, and main of produce_send_rows.py has made N send_payload
\* calls when it breaks out of its loop.
C1_EnqueuedEqualsRows ==
  /\ (variant = "kafka" /\ pc \in {"returned", "done"} /\ exc = "none")
       => (total = Len(csv) /\ Len(msgs) = Len(csv) /\ InOrder(msgs))
  /\ (variant = "batch" /\ ~loop /\ pc \in {"finally", "done"} /\ exc = "none")
       => (Len(sendLog) = Len(csv) /\ InOrder(sendLog))

\* C1 witness: stream_csv returns after two rows, the last one enqueued by the retry
C1_Witness ==
  variant = "kafka" /\ pc = "returned" /\ Len(csv) >= 2 /\ attempts = 2 /\ total = Len(csv)

\* C2 as claimed: in loop mode the send attempts made are cycles * N plus the rows of
\* the current cycle, and the run never ends because the input ended.
C2_LoopClaim ==
  (variant = "batch" /\ loop) =>
    /\ Len(sendLog) = cycles * Len(csv) + (IF pc = "send" THEN gen - 1 ELSE gen)
    /\ (pc \in {"finally", "done"} => exc \notin {"none", "StopIteration"})

\* C3 as claimed: for every batch size the messages enqueued since the last
\* threshold flush never exceed the batch size, and fewer than that are
\* outstanding whenever an enqueue is about to follow an earlier one.
C3_Original ==
  variant = "kafka" =>
    /\ sinceFlush <= batch_size
    /\ (pc \in {"produce", "bufpoll", "bufflush", "retry"} /\ Len(msgs) > 0
          => sinceFlush < batch_size)

EffectiveBatch == IF batch_size >= 1 THEN batch_size ELSE 1

\* C3 amended: the bound is the batch size when it is at least 1 and 1 otherwise
\* (a batch size below 1 flushes after every enqueue); batch_counter is the number
\* of messages enqueued since the last threshold flush whenever a row is started,
\* and is below the bound then.
C3_BoundedInFlight ==
  variant = "kafka" =>
    /\ sinceFlush <= EffectiveBatch
    /\ (pc \in {"row", "produce", "bufpoll", "bufflush", "retry"}
          => (sinceFlush < EffectiveBatch /\ batch_counter = sinceFlush))

\* C3 witness: with --batch 2 the second enqueue was followed by the flush(30)
C3_Witness ==
  /\ variant = "kafka" /\ batch_size = 2 /\ pc = "row" /\ sinceFlush = 0
  /\ \E i \in DOMAIN flushLog : flushLog[i].timeout = 30 /\ flushLog[i].after = 2

\* C4: a send_payload call whose payload exceeds the base batch but fits the 4 MB
\* batch, and in which no SDK call fails, sends the event in the one retry and
\* returns True.
C4_ExpandedSucceeds ==
  \A i \in DOMAIN sendLog :
    (sendLog[i].size > BaseMax /\ sendLog[i].size <= ExpandedMax /\ ~sendLog[i].sdkErr)
      => /\ sendLog[i].ret = "True" /\ sendLog[i].retries = 1 /\ sendLog[i].sent
         /\ (i = Len(sendLog) /\ pc = "sleep" => ok)

\* C4 witness: such a payload was sent by the retry and the run went on
C4_Witness ==
  \E i \in DOMAIN sendLog :
    /\ sendLog[i].size > BaseMax /\ sendLog[i].size <= ExpandedMax
    /\ sendLog[i].ret = "True" /\ sendLog[i].retries = 1 /\ pc = "sleep" /\ ok

\* C5: a send_payload call that got its first batch and whose payload exceeds the
\* 4 MB batch returns False after one retry, raises nothing, and main goes on: it
\* sleeps, and later leaves its loop only for the end of the input or an interrupt.
C5_OversizeFails ==
  \A i \in DOMAIN sendLog :
    (sendLog[i].size > ExpandedMax /\ sendLog[i].create1)
      => /\ sendLog[i].ret = "False" /\ sendLog[i].retries = 1 /\ ~sendLog[i].sent
         /\ (i = Len(sendLog) =>
               /\ exc \in {"none", "KeyboardInterrupt"}
               /\ (pc = "sleep" => ~ok)
               /\ (pc \in {"finally", "done"} /\ exc = "none" => ~loop /\ gen = Len(csv)))

\* C5 witness: an oversized payload failed and a later row was sent all the same
C5_Witness ==
  \E i \in DOMAIN sendLog :
    /\ sendLog[i].size > ExpandedMax /\ sendLog[i].create1 /\ sendLog[i].ret = "False"
    /\ i < Len(sendLog) /\ sendLog[i + 1].ret = "True"

\* the one bounded flush of the interrupt handler
Drained ==
  /\ Len(flushLog) >= 1
  /\ flushLog[Len(flushLog)].timeout = 10
  /\ Cardinality({i \in DOMAIN flushLog : flushLog[i].timeout = 10}) = 1

\* C6 as claimed: a run ended by a user interrupt has exit status 0, has made its
\* final drain (the flush(10) of the Kafka script, the close of the other), and
\* delivered + failed <= enqueued.
C6_InterruptClaim ==
  (pc = "done" /\ exc = "KeyboardInterrupt") =>
    /\ exitStatus = "0"
    /\ (IF variant = "kafka" THEN Drained ELSE closed)
    /\ stats.delivered + stats.failed <= total

\* C7 as claimed: a per-message failure never stops the run: a full local buffer
\* never ends stream_csv, and a send_payload that returned False never ends main.
C7_PerMessageClaim ==
  /\ exc # "BufferError"
  /\ (Len(sendLog) >= 1 /\ sendLog[Len(sendLog)].ret = "False"
        => exc \in {"none", "KeyboardInterrupt"})

\* C8 as claimed: the key of every message is the UTF-8 bytes of the row's value in
\* the configured key column, and None exactly when no key field is configured or
\* the field is missing (from the header or from the row).
C8_KeyClaim ==
  variant = "kafka" =>
    \A i \in DOMAIN msgs :
      LET row == DictRow(csv[msgs[i].row].cells)
          missing == \/ key_field_arg = None
                     \/ key_field_arg.v \notin DOMAIN row
                     \/ row[key_field_arg.v] = None
      IN msgs[i].key = (IF missing THEN None ELSE Encode(row[key_field_arg.v]))

\* C9: a produce rejected with BufferError is followed by poll, then flush(5), then
\* one second produce of the same row; no row is enqueued twice and no row gets more
\* than two produce calls.
C9_RetryOnce ==
  variant = "kafka" =>
    /\ attempts <= 2
    /\ \A i, j \in DOMAIN msgs : msgs[i].row = msgs[j].row => i = j
    /\ (pc \in {"bufpoll", "bufflush", "retry"}
          => (attempts = 1 /\ \A i \in DOMAIN msgs : msgs[i].row # pos))
    /\ (pc = "retry" => recovery = <<"poll", "flush">>)
    /\ (attempts = 2 => recovery = <<"poll", "flush">>)
    /\ (pc = "retry"
          => (Len(flushLog) >= 1 /\ flushLog[Len(flushLog)].timeout = 5
              /\ flushLog[Len(flushLog)].after = Len(msgs)))

\* C9 witness: the retry of a rejected row was accepted
C9_Witness ==
  /\ variant = "kafka" /\ pc = "poll0" /\ attempts = 2
  /\ Len(msgs) >= 1 /\ msgs[Len(msgs)].row = pos

\* C10 as claimed: a broker client that was created is closed when main is left.
C10_ClosedClaim == (pc = "done" /\ created) => closed

====
